---------------------------- MODULE Spec2Model ----------------------------
(***************************************************************************)
(* A model of the fuzzy autocomplete engine of Google-AutoComplete:        *)
(*   - ProcessData (src/process_data.py): cleaning of corpus lines and     *)
(*     construction of the affix index (a defaultdict(list));              *)
(*   - AutoComplete (src/auto_complete.py): single-edit correction,        *)
(*     per-token intersection, ordered-occurrence filter and result        *)
(*     assembly of get_best_k_completion.                                  *)
(* A Python str is modelled as a sequence of one-character strings, a      *)
(* Python list as a sequence, a Python set as a set, and the defaultdict   *)
(* as a function whose DOMAIN is its key set.                              *)
(***************************************************************************)
EXTENDS Integers, Sequences, FiniteSets, TLC

(***************************************************************************)
(* Bounds of the model.                                                    *)
(***************************************************************************)
\* total number of raw lines handed to ProcessData.process over all calls
MaxCorpus == 2
\* largest result limit k passed to get_best_k_completion
MaxK == 2

(***************************************************************************)
(* Characters.                                                             *)
(***************************************************************************)
\* string.ascii_lowercase, in order
ascii_lowercase ==
  << "a","b","c","d","e","f","g","h","i","j","k","l","m",
     "n","o","p","q","r","s","t","u","v","w","x","y","z" >>

ascii_uppercase ==
  << "A","B","C","D","E","F","G","H","I","J","K","L","M",
     "N","O","P","Q","R","S","T","U","V","W","X","Y","Z" >>

Range(f) == { f[i] : i \in DOMAIN f }

LowerLetters == Range(ascii_lowercase)
UpperLetters == Range(ascii_uppercase)
Digits == { "0","1","2","3","4","5","6","7","8","9" }
Whitespace == { " " }

\* the characters the regex class \w matches (letters, digits, underscore)
IsWordChar(c) == c \in LowerLetters \cup UpperLetters \cup Digits \cup {"_"}

\* str.lower() on one character
LowerChar(c) ==
  IF c \in UpperLetters
    THEN ascii_lowercase[CHOOSE i \in DOMAIN ascii_uppercase : ascii_uppercase[i] = c]
    ELSE c

\* str.lower()
Lower(s) == [ i \in 1..Len(s) |-> LowerChar(s[i]) ]

(***************************************************************************)
(* Python str operations.                                                  *)
(***************************************************************************)
Max(a, b) == IF a >= b THEN a ELSE b
Min(a, b) == IF a <= b THEN a ELSE b

\* normalisation of a slice bound: negative bounds count from the end, and
\* the result is clamped to 0..len
SliceBound(n, b) == IF b < 0 THEN Max(n + b, 0) ELSE Min(b, n)

\* s[a:b] with 0-based, possibly negative, bounds
PySlice(s, a, b) ==
  LET lo == SliceBound(Len(s), a)
      hi == SliceBound(Len(s), b)
  IN  IF lo >= hi THEN << >> ELSE SubSeq(s, lo + 1, hi)

\* s[:b]
PySliceTo(s, b) == PySlice(s, 0, b)

\* s[a:]
PySliceFrom(s, a) == PySlice(s, a, Len(s))

\* s[p] with a 0-based, possibly negative, index (defined when PyIndexOk)
PyIndexOk(s, p) == -Len(s) <= p /\ p < Len(s)
PyIndex(s, p) == IF p < 0 THEN s[Len(s) + p + 1] ELSE s[p + 1]

\* a in b for two str: a is a contiguous substring of b
IsSubstr(a, b) ==
  \E i \in 0..(Len(b) - Len(a)) : SubSeq(b, i + 1, i + Len(a)) = a

\* str.strip()
RECURSIVE LStrip(_)
LStrip(s) == IF s # << >> /\ Head(s) \in Whitespace THEN LStrip(Tail(s)) ELSE s

RECURSIVE RStrip(_)
RStrip(s) ==
  IF s # << >> /\ s[Len(s)] \in Whitespace
    THEN RStrip(SubSeq(s, 1, Len(s) - 1)) ELSE s

Strip(s) == RStrip(LStrip(s))

\* ' '.join(words)
RECURSIVE Join(_)
Join(words) ==
  IF words = << >> THEN << >>
  ELSE IF Len(words) = 1 THEN words[1]
  ELSE words[1] \o << " " >> \o Join(Tail(words))

\* str.split(): the maximal runs of non-whitespace characters
RECURSIVE SplitFrom(_, _, _)
SplitFrom(s, i, cur) ==
  IF i > Len(s) THEN (IF cur = << >> THEN << >> ELSE << cur >>)
  ELSE IF s[i] \in Whitespace
    THEN (IF cur = << >> THEN << >> ELSE << cur >>) \o SplitFrom(s, i + 1, << >>)
    ELSE SplitFrom(s, i + 1, Append(cur, s[i]))

Split(s) == SplitFrom(s, 1, << >>)

(***************************************************************************)
(* The tokenizer re.compile(r'\b[a-z]+\b').findall: a match starts and     *)
(* ends at a \b word boundary, so it is a whole maximal run of \w          *)
(* characters, and it matches only when every character of the run is in   *)
(* a-z.                                                                    *)
(***************************************************************************)
RECURSIVE FindAllFrom(_, _, _)
FindAllFrom(s, i, run) ==
  LET emit == IF run # << >> /\ \A j \in 1..Len(run) : run[j] \in LowerLetters
                THEN << run >> ELSE << >>
  IN  IF i > Len(s) THEN emit
      ELSE IF IsWordChar(s[i]) THEN FindAllFrom(s, i + 1, Append(run, s[i]))
      ELSE emit \o FindAllFrom(s, i + 1, << >>)

\* the tokenizer without its \b anchors, re.compile(r'[a-z]+').findall: every
\* character outside a-z ends a run
RECURSIVE FindLettersFrom(_, _, _)
FindLettersFrom(s, i, run) ==
  LET emit == IF run # << >> THEN << run >> ELSE << >>
  IN  IF i > Len(s) THEN emit
      ELSE IF s[i] \in LowerLetters THEN FindLettersFrom(s, i + 1, Append(run, s[i]))
      ELSE emit \o FindLettersFrom(s, i + 1, << >>)

word_re_findall_unanchored(s) == FindLettersFrom(s, 1, << >>)

word_re_findall(s) == FindAllFrom(s, 1, << >>)

(***************************************************************************)
(* ProcessData.                                                            *)
(***************************************************************************)
\* get_all_substrings with range(2, n) for range(2, n+1): the whole word is left out
get_all_substrings_short(words) ==
  UNION { UNION { { PySlice(words[i], 0, j), PySlice(words[i], -j, Len(words[i])) }
                  : j \in 2..(Len(words[i]) - 1) }
          : i \in 1..Len(words) }

\* ProcessData.get_all_substrings: for every word of length n and every j in
\* range(2, n+1), the prefix word[0:j] and the suffix word[-j:n]
get_all_substrings(words) ==
  UNION { UNION { { PySlice(words[i], 0, j), PySlice(words[i], -j, Len(words[i])) }
                  : j \in 2..Len(words[i]) }
          : i \in 1..Len(words) }

\* ProcessData.remove_punctuation
remove_punctuation(line) == Join(word_re_findall(Lower(line)))

\* filename or "Unknown"
SourceId(filename) == IF filename = "" THEN "Unknown" ELSE filename

\* self.__data[substring].append(record) for every substring of the set subs:
\* the defaultdict creates a missing key with an empty list before the append
AppendUnder(data, subs, record) ==
  [ key \in (DOMAIN data) \cup subs |->
      (IF key \in DOMAIN data THEN data[key] ELSE << >>)
      \o (IF key \in subs THEN << record >> ELSE << >>) ]

\* process_line recording the 0-based index i as the line number
process_line_zero_based(data, lines, i, filename) ==
  LET clean_line == remove_punctuation(Strip(lines[i + 1]))
  IN  IF clean_line # << >>
        THEN AppendUnder(data, get_all_substrings(Split(clean_line)),
                         << lines[i + 1], i, SourceId(filename) >>)
        ELSE data

\* the body of the loop of ProcessData.process for index i (0-based)
process_line(data, lines, i, filename) ==
  LET clean_line == remove_punctuation(Strip(lines[i + 1]))
  IN  IF clean_line # << >>
        THEN AppendUnder(data, get_all_substrings(Split(clean_line)),
                         << lines[i + 1], i + 1, SourceId(filename) >>)
        ELSE data

\* ProcessData.process: for i in range(len(lines))
RECURSIVE process_from(_, _, _, _)
process_from(data, lines, i, filename) ==
  IF i >= Len(lines) THEN data
  ELSE process_from(process_line(data, lines, i, filename), lines, i + 1, filename)

process(data, lines, filename) == process_from(data, lines, 0, filename)

(***************************************************************************)
(* AutoComplete: single-edit correction.  The index is passed as data;     *)
(* "x in self.ht" is x \in DOMAIN data.  A candidate is <<string, score>>. *)
(***************************************************************************)
\* the loop of AutoComplete.delete_char: for i in range(len(sentence), -1, -1)
RECURSIVE delete_char_from(_, _, _, _)
delete_char_from(data, sentence, i, valid_sentences) ==
  IF i < 0 THEN valid_sentences
  ELSE
    LET new_sentence == PySliceTo(sentence, i) \o PySliceFrom(sentence, i + 1)
        score == (Len(sentence) - 1) * 2
        penalty == Max(10 - 2 * i, 2)
        appended == Append(valid_sentences, << new_sentence, score - penalty >>)
    IN  IF new_sentence \in DOMAIN data
          THEN IF Len(appended) = 5
                 THEN appended
                 ELSE delete_char_from(data, sentence, i - 1, appended)
          ELSE delete_char_from(data, sentence, i - 1, valid_sentences)

\* AutoComplete.delete_char
delete_char(data, sentence) == delete_char_from(data, sentence, Len(sentence), << >>)

\* AutoComplete.addition_score
addition_score(index, max_score) ==
  LET penalties == << 10, 8, 6, 4 >>
  IN  max_score - (IF index < 4 THEN penalties[index + 1] ELSE 2)

\* the candidate add_char forms for letter number c at position i
add_candidate(sentence, c, i) ==
  << PySliceTo(sentence, i) \o << ascii_lowercase[c] >> \o PySliceFrom(sentence, i),
     addition_score(i, Len(sentence) * 2) >>

\* AutoComplete.add_char: for char in range(ord('a'), ord('z') + 1), for i in
\* range(n, -1, -1), every candidate that is a key, in the order of the loops
add_char(data, sentence) ==
  LET n == Len(sentence)
      tried == [ t \in 1..(Len(ascii_lowercase) * (n + 1)) |->
                   add_candidate(sentence, ((t - 1) \div (n + 1)) + 1,
                                 n - ((t - 1) % (n + 1))) ]
      IsKey(cand) == cand[1] \in DOMAIN data
  IN  SelectSeq(tried, IsKey)

\* AutoComplete.has_multiple_mismatches
has_multiple_mismatches(data, subtext) ==
  LET words == Split(subtext)
  IN  Cardinality({ i \in 1..Len(words) : words[i] \notin DOMAIN data }) > 1

\* the value None
None == << >>

\* AutoComplete.find_mismatched_word_and_index: <<word, i>> for the first word
\* (enumerate index i, 0-based) that is not a key, or None
find_mismatched_word_and_index(data, subtext) ==
  LET words == Split(subtext)
      missing == { i \in 1..Len(words) : words[i] \notin DOMAIN data }
  IN  IF missing = {} THEN None
      ELSE LET i == CHOOSE m \in missing : \A o \in missing : m <= o
           IN  << words[i], i - 1 >>

\* the inner loop of generate_possible_replacements at position pos
\* (= end_word_index - i): for char in alphabet, skipping the character already
\* there, every new_word that is a key is appended; the loop is left by break
\* right after an append that makes len(possible_words) == 5
replacements_at(data, subtext, pos, possible_words) ==
  LET score == (Len(subtext) - 1) * 2
      penalty == IF pos > 3 THEN 1 ELSE 5 - pos
      tried == [ c \in 1..Len(ascii_lowercase) |->
                   << PySliceTo(subtext, pos) \o << ascii_lowercase[c] >>
                        \o PySliceFrom(subtext, pos + 1),
                      score - penalty, ascii_lowercase[c] >> ]
      Accepted(cand) == cand[3] # PyIndex(subtext, pos) /\ cand[1] \in DOMAIN data
      accepted == SelectSeq(tried, Accepted)
      found == [ n \in 1..Len(accepted) |-> << accepted[n][1], accepted[n][2] >> ]
      before == Len(possible_words)
  IN  IF before < 5
        THEN possible_words \o SubSeq(found, 1, Min(Len(found), 5 - before))
        ELSE possible_words \o found

\* the outer loop of generate_possible_replacements:
\* for i in range(len(mismatched_word), -1, -1)
RECURSIVE replacements_from(_, _, _, _, _)
replacements_from(data, subtext, end_word_index, i, possible_words) ==
  IF i < 0 THEN possible_words
  ELSE replacements_from(data, subtext, end_word_index, i - 1,
         replacements_at(data, subtext, end_word_index - i, possible_words))

\* AutoComplete.generate_possible_replacements
generate_possible_replacements(data, mismatched_word, subtext, end_word_index) ==
  replacements_from(data, subtext, end_word_index, Len(mismatched_word), << >>)

\* AutoComplete.replace_char (defined when replace_char_raises is false)
replace_char(data, subtext) ==
  IF has_multiple_mismatches(data, subtext) THEN << >>
  ELSE
    LET found == find_mismatched_word_and_index(data, subtext)
        mismatched_word == found[1]
        start_index == found[2]
        end_word_index == start_index + Len(mismatched_word) - 1
    IN  generate_possible_replacements(data, mismatched_word, subtext, end_word_index)

\* replace_char raises: unpacking None (TypeError), or subtext[end_word_index - i]
\* out of range (IndexError)
replace_char_raises(data, subtext) ==
  /\ ~has_multiple_mismatches(data, subtext)
  /\ LET found == find_mismatched_word_and_index(data, subtext)
     IN  \/ found = None
         \/ /\ found # None
            /\ \E i \in 0..Len(found[1]) :
                 ~PyIndexOk(subtext, found[2] + Len(found[1]) - 1 - i)

\* the selection loop of get_best_completions: the first candidate of the
\* strictly greatest score, "" when there is none
RECURSIVE best_of(_, _, _, _)
best_of(combining_list, n, has_higher, best) ==
  IF n > Len(combining_list) THEN best
  ELSE IF ~has_higher \/ combining_list[n][2] > best[2]
    THEN best_of(combining_list, n + 1, TRUE, combining_list[n])
    ELSE best_of(combining_list, n + 1, has_higher, best)

\* the pooled candidates of get_best_completions
combining_list_of(data, subtext) ==
  replace_char(data, subtext) \o delete_char(data, subtext) \o add_char(data, subtext)

\* AutoComplete.get_best_completions
get_best_completions(data, subtext) ==
  best_of(combining_list_of(data, subtext), 1, FALSE, << << >>, 0 >>)[1]

(***************************************************************************)
(* AutoComplete: the query engine.                                         *)
(***************************************************************************)
\* the while loop of check_if_input_in_line from j, k: "false" when the loop
\* returns False, "true" when it ends with j = len(user_input_words), "next"
\* when it ends otherwise and the for loop goes on
RECURSIVE match_run(_, _, _, _)
match_run(user_input_words, line_words, j, k) ==
  IF j < Len(user_input_words) /\ k < Len(line_words)
    THEN IF ~IsSubstr(user_input_words[j + 1], line_words[k + 1])
           THEN "false"
           ELSE match_run(user_input_words, line_words, j + 1, k + 1)
    ELSE IF j = Len(user_input_words) THEN "true" ELSE "next"

\* the for loop of check_if_input_in_line from index i (0-based)
RECURSIVE check_from(_, _, _)
check_from(user_input_words, line_words, i) ==
  IF i >= Len(line_words) THEN FALSE
  ELSE IF IsSubstr(user_input_words[1], line_words[i + 1])
    THEN LET r == match_run(user_input_words, line_words, 0, i)
         IN  IF r = "false" THEN FALSE
             ELSE IF r = "true" THEN TRUE
             ELSE check_from(user_input_words, line_words, i + 1)
    ELSE check_from(user_input_words, line_words, i + 1)

\* AutoComplete.check_if_input_in_line
check_if_input_in_line(user_input_words, line_words) ==
  check_from(user_input_words, line_words, 0)

\* defaultdict.__getitem__: the value under key, and the mapping afterwards
\* (a missing key is created with an empty list)
ht_getitem(data, key) == IF key \in DOMAIN data THEN data[key] ELSE << >>

ht_after_getitem(data, key) ==
  IF key \in DOMAIN data THEN data
  ELSE [ x \in (DOMAIN data) \cup {key} |-> IF x = key THEN << >> ELSE data[x] ]

\* the locals of get_best_k_completion before its loop
loop_start(data) ==
  [ data |-> data, lines |-> {}, correct_sentence |-> << >>,
    returned |-> FALSE, raised |-> FALSE ]

\* lines = set(self.ht[word]) or lines.intersection_update(self.ht[word]),
\* then correct_sentence.append(word)
take_token(st, word) ==
  [ st EXCEPT
      !.lines = IF Cardinality(st.lines) = 0
                  THEN Range(ht_getitem(st.data, word))
                  ELSE st.lines \cap Range(ht_getitem(st.data, word)),
      !.data = ht_after_getitem(st.data, word),
      !.correct_sentence = Append(st.correct_sentence, word) ]

\* resolve_word without the test "word in self.ht": the lookup self.ht[word] is
\* made on the token as it is, and the defaultdict creates the missing key
resolve_word_unchecked(st, word) == take_token(st, word)

\* resolve_word with the "return []" of an uncorrectable token left out: the
\* loop goes on to the next token
resolve_word_skipping(st, word) ==
  IF word \in DOMAIN st.data THEN take_token(st, word)
  ELSE LET new_word == get_best_completions(st.data, word)
       IN  IF new_word # << >> THEN take_token(st, new_word) ELSE st

\* one iteration of "for word in user_words" of get_best_k_completion
resolve_word(st, word) ==
  IF word \in DOMAIN st.data THEN take_token(st, word)
  ELSE IF replace_char_raises(st.data, word) THEN [ st EXCEPT !.raised = TRUE ]
  ELSE LET new_word == get_best_completions(st.data, word)
       IN  IF new_word # << >> THEN take_token(st, new_word)
           ELSE [ st EXCEPT !.returned = TRUE ]

\* the loop "for word in user_words", left by return [] or by an exception
RECURSIVE resolve_from(_, _, _)
resolve_from(st, user_words, n) ==
  IF n > Len(user_words) \/ st.returned \/ st.raised THEN st
  ELSE resolve_from(resolve_word(st, user_words[n]), user_words, n + 1)

\* the tokens of the query: self.__word_re.findall(user_input.lower().strip())
tokens_of(user_input) == word_re_findall(Strip(Lower(user_input)))

\* filter_lines with the filter applied only from three tokens on
filter_lines_late(user_words, correct_sentence, lines) ==
  IF Len(user_words) > 2
    THEN { line \in lines :
             check_if_input_in_line(correct_sentence, tokens_of(line[1])) }
    ELSE lines

\* the lines kept by the filter step of get_best_k_completion (as a set; the
\* list final_lines holds them in the iteration order of the set)
filter_lines(user_words, correct_sentence, lines) ==
  IF Len(user_words) > 1
    THEN { line \in lines :
             check_if_input_in_line(correct_sentence, tokens_of(line[1])) }
    ELSE lines

\* the lists a set can be iterated into
Orderings(S) ==
  { f \in [ 1..Cardinality(S) -> S ] : \A a, b \in DOMAIN f : f[a] = f[b] => a = b }

\* random.sample(population, k): k elements at distinct positions, in any order
Samples(population, k) ==
  { [ n \in 1..k |-> population[pos[n]] ] :
      pos \in { f \in [ 1..k -> 1..Len(population) ] :
                  \A a, b \in 1..k : f[a] = f[b] => a = b } }

\* AutoComplete.create_auto_complete: AutoCompleteData(lines[i][0], lines[i][2],
\* lines[i][1]) = (completed_sentence, source_text, offset)
create_auto_complete(lines) ==
  [ i \in 1..Len(lines) |-> << lines[i][1], lines[i][3], lines[i][2] >> ]

\* the result assembly without the limit: every kept line is returned
assemble_unlimited(final_lines, k) == { create_auto_complete(final_lines) }

\* the lists the result assembly of get_best_k_completion can return
assemble(final_lines, k) ==
  IF Len(final_lines) > k
    THEN { create_auto_complete(random_elements) :
             random_elements \in Samples(final_lines, k) }
    ELSE { create_auto_complete(final_lines) }

(***************************************************************************)
(* Inputs: the raw corpus lines, source names and raw queries the model    *)
(* draws from.                                                             *)
(***************************************************************************)
\* "The Quick Brown Fox"
LineQuick == << "T","h","e"," ","Q","u","i","c","k"," ","B","r","o","w","n"," ","F","o","x" >>
\* "fox brown trick"
LineTrick == << "f","o","x"," ","b","r","o","w","n"," ","t","r","i","c","k" >>
\* "I row: fox fox brown"
LineRow == << "I"," ","r","o","w",":"," ","f","o","x"," ","f","o","x"," ","b","r","o","w","n" >>
\* "ay by cy dy ey xa dados"
LineAffix == << "a","y"," ","b","y"," ","c","y"," ","d","y"," ","e","y"," ","x","a"," ","d","a","d","o","s" >>
\* " 2fox, a_b " (no token survives cleaning)
LineDigits == << " ","2","f","o","x",","," ","a","_","b"," " >>

LinePool == { LineQuick, LineTrick, LineRow, LineAffix, LineDigits }

Filenames == { "a.txt", "" }

\* "quikc"
QueryQuikc == << "q","u","i","k","c" >>
\* "brown fox"
QueryBrownFox == << "b","r","o","w","n"," ","f","o","x" >>
\* "quick row fox"
QueryQuickRowFox == << "q","u","i","c","k"," ","r","o","w"," ","f","o","x" >>
\* "fox brown"
QueryFoxBrown == << "f","o","x"," ","b","r","o","w","n" >>
\* "xy"
QueryXy == << "x","y" >>
\* "do"
QueryDo == << "d","o" >>
\* " 12, #" (no alphabetic token)
QueryNoToken == << " ","1","2",","," ","#" >>
\* "fox zzz"
QueryFoxZzz == << "f","o","x"," ","z","z","z" >>
\* "zzz fox"
QueryZzzFox == << "z","z","z"," ","f","o","x" >>
\* "Fox"
QueryFox == << "F","o","x" >>

\* "2fox Brown"
QueryDigitFox == << "2","f","o","x"," ","B","r","o","w","n" >>

QueryPool ==
  { QueryQuikc, QueryBrownFox, QueryQuickRowFox, QueryFoxBrown, QueryXy, QueryDo,
    QueryNoToken, QueryFoxZzz, QueryZzzFox, QueryFox, QueryDigitFox }

(***************************************************************************)
(* State.                                                                  *)
(***************************************************************************)
VARIABLES
  ht,               \* ProcessData.__data / AutoComplete.ht: key -> list of records
  corpus,           \* history: the <<raw line, filename>> pairs processed so far
  called,           \* a call of get_best_k_completion has returned to the caller
  user_input,       \* its argument user_input
  k,                \* its argument k
  user_words,       \* its local user_words
  correct_sentence, \* its local correct_sentence when it left the loop
  lines,            \* its local lines when it left the loop
  final_lines,      \* the elements of its local list final_lines (none when it
                    \* returned early)
  result,           \* the list it returned: <<sentence, source, offset>> triples
  returned_early,   \* it left through "return []" inside the loop
  raised            \* it left through an exception

vars == << ht, corpus, called, user_input, k, user_words, correct_sentence, lines,
           final_lines, result, returned_early, raised >>

\* no call of get_best_k_completion is being looked at
NoCall ==
  /\ called = FALSE
  /\ user_input = << >>
  /\ k = 0
  /\ user_words = << >>
  /\ correct_sentence = << >>
  /\ lines = {}
  /\ final_lines = {}
  /\ result = << >>
  /\ returned_early = FALSE
  /\ raised = FALSE

\* ProcessData.__init__: defaultdict(list)
Init ==
  /\ ht = << >>
  /\ corpus = << >>
  /\ NoCall

\* one call ProcessData.process(lines, filename)
Process ==
  /\ ~called
  /\ \E n \in 1..(MaxCorpus - Len(corpus)) :
       \E batch \in [ 1..n -> LinePool ], filename \in Filenames :
         /\ ht' = process(ht, batch, filename)
         /\ corpus' = corpus \o [ i \in 1..n |-> << batch[i], filename >> ]
  /\ UNCHANGED << called, user_input, k, user_words, correct_sentence, lines,
                  final_lines, result, returned_early, raised >>

\* one call AutoComplete.get_best_k_completion(input, limit)
Query ==
  /\ ~called
  /\ \E input \in QueryPool :
       \E words \in { tokens_of(input) } :
         \E st \in { resolve_from(loop_start(ht), words, 1) } :
           \E kept \in { IF st.returned \/ st.raised THEN {}
                         ELSE filter_lines(words, st.correct_sentence, st.lines) } :
             \E limit \in 0..MaxK, final \in Orderings(kept) :
               \E res \in (IF st.returned \/ st.raised THEN { << >> }
                           ELSE assemble(final, limit)) :
                 /\ called' = TRUE
                 /\ user_input' = input
                 /\ k' = limit
                 /\ user_words' = words
                 /\ correct_sentence' = st.correct_sentence
                 /\ lines' = st.lines
                 /\ final_lines' = Range(final)
                 /\ result' = res
                 /\ returned_early' = st.returned
                 /\ raised' = st.raised
                 /\ ht' = st.data
                 /\ UNCHANGED corpus

\* the caller is done with the returned list (user_interaction prints it and
\* goes back to input()); the locals of the call are gone
Display ==
  /\ called
  /\ called' = FALSE
  /\ user_input' = << >>
  /\ k' = 0
  /\ user_words' = << >>
  /\ correct_sentence' = << >>
  /\ lines' = {}
  /\ final_lines' = {}
  /\ result' = << >>
  /\ returned_early' = FALSE
  /\ raised' = FALSE
  /\ UNCHANGED << ht, corpus >>

Next == Process \/ Query \/ Display

Spec == Init /\ [][Next]_vars

\* the index builder alone: any sequence of ProcessData.process calls
SpecBuild == Init /\ [][Process]_vars

(***************************************************************************)
(* Notions the properties are stated with.                                 *)
(***************************************************************************)
\* the Line Record a Completion Result (sentence, source, offset) comes from
RecordOf(completion) == << completion[1], completion[3], completion[2] >>

\* s with its n-th character (1-based) removed
RemoveAt(s, n) == SubSeq(s, 1, n - 1) \o SubSeq(s, n + 1, Len(s))

\* b is a by exactly one substitution, one insertion or one deletion of a character
OneEdit(a, b) ==
  \/ /\ Len(a) = Len(b)
     /\ Cardinality({ i \in 1..Len(a) : a[i] # b[i] }) = 1
  \/ /\ Len(b) = Len(a) + 1
     /\ \E n \in 1..Len(b) : RemoveAt(b, n) = a
  \/ /\ Len(a) = Len(b) + 1
     /\ \E n \in 1..Len(a) : RemoveAt(a, n) = b

\* the tokens of words occur, in order, as substrings of a run of consecutive
\* tokens of line_words, one line token per word
HasRun(words, line_words) ==
  \E start \in 0..(Len(line_words) - Len(words)) :
    \A j \in 1..Len(words) : IsSubstr(words[j], line_words[start + j])

\* the lines of the running set that pass the ordered-occurrence filter (none
\* when the call returned from inside its loop)
Survivors ==
  IF returned_early \/ raised THEN {}
  ELSE filter_lines(user_words, correct_sentence, lines)

C2_ResultInEveryTokenList ==
  called =>
    \A n \in 1..Len(result), t \in 1..Len(correct_sentence) :
      RecordOf(result[n]) \in Range(ht_getitem(ht, correct_sentence[t]))

(***************************************************************************)
(* C3: for a query token that is not an index key, every candidate of      *)
(* replace_char, delete_char and add_char, and the correction              *)
(* get_best_completions returns when it is not empty, is exactly one       *)
(* character insertion, deletion or substitution away from the token.      *)
(***************************************************************************)
C3_CandidatesAreSingleEdits ==
  called =>
    \A n \in 1..Len(user_words) :
      LET token == user_words[n]
          pool == combining_list_of(ht, token)
          best == get_best_completions(ht, token)
      IN  token \notin DOMAIN ht =>
            /\ \A c \in 1..Len(pool) : OneEdit(token, pool[c][1])
            /\ best # << >> => OneEdit(token, best)

(***************************************************************************)
(* C4: for a query of two or more tokens every returned line has a run of  *)
(* consecutive tokens, one per resolved query token, the j-th resolved     *)
(* token being a substring of the j-th token of the run.                   *)
(***************************************************************************)
C4_ReturnedLinesHaveRun ==
  called /\ Len(user_words) >= 2 =>
    \A n \in 1..Len(result) :
      /\ Len(correct_sentence) = Len(user_words)
      /\ HasRun(correct_sentence, tokens_of(result[n][1]))

\* a two-token call whose intersection held a line without such a run, which
\* was dropped, and a line with one, which was returned
C4_Witness ==
  /\ called
  /\ Len(user_words) >= 2
  /\ result # << >>
  /\ \E line \in lines :
       /\ ~HasRun(correct_sentence, tokens_of(line[1]))
       /\ \A n \in 1..Len(result) : RecordOf(result[n]) # line

(***************************************************************************)
(* C5: a string is a key of the index iff it has length >= 2 and is a      *)
(* prefix or a suffix of a word of a cleaned corpus line; every cleaned    *)
(* word of length >= 2 is a key, no string of length 1 is, and every key   *)
(* maps to a non-empty record list.                                        *)
(***************************************************************************)
\* the words of the cleaned lines processed so far
CleanedWords ==
  UNION { Range(Split(remove_punctuation(Strip(corpus[n][1])))) : n \in 1..Len(corpus) }

\* the prefixes and suffixes of length >= 2 of w
Affixes(w) ==
  { SubSeq(w, 1, b) : b \in 2..Len(w) } \cup { SubSeq(w, a, Len(w)) : a \in 1..(Len(w) - 1) }

C5_KeysAreAffixes ==
  /\ DOMAIN ht = UNION { Affixes(w) : w \in CleanedWords }
  /\ \A w \in CleanedWords : Len(w) >= 2 => w \in DOMAIN ht
  /\ \A key \in DOMAIN ht : Len(key) >= 2 /\ ht[key] # << >>

\* an index built by two process calls from lines with a one-letter word, a
\* longer word and a line that cleans to nothing
C5_Witness ==
  /\ \E n \in 1..Len(corpus) : corpus[n][1] = LineRow
  /\ \E n \in 1..Len(corpus) : corpus[n][1] = LineDigits
  /\ \E w \in CleanedWords : Len(w) = 1
  /\ << "b", "r", "o", "w", "n" >> \in DOMAIN ht

(***************************************************************************)
(* C6: a call returns the empty list, without raising, when the query has  *)
(* no alphabetic token, and when some token of the query is neither an     *)
(* index key nor one edit away from an index key, wherever it stands.      *)
(***************************************************************************)
\* token is no key and no key is a single edit away from it
Uncorrectable(token) ==
  /\ token \notin DOMAIN ht
  /\ \A key \in DOMAIN ht : ~OneEdit(token, key)

C6_DegenerateQueriesReturnEmpty ==
  called =>
    /\ ~raised
    /\ user_words = << >> => result = << >>
    /\ (\E n \in 1..Len(user_words) : Uncorrectable(user_words[n])) => result = << >>

\* a call whose first token resolved to lines of the index and whose second
\* token has no correction
C6_Witness ==
  /\ called
  /\ Len(user_words) = 2
  /\ user_words[1] \in DOMAIN ht
  /\ Uncorrectable(user_words[2])
  /\ lines # {}
  /\ result = << >>

(***************************************************************************)
(* C7: with the index built from the single line "The Quick Brown Fox" of  *)
(* "a.txt", the query "quikc" resolves to one token and returns exactly    *)
(* the Completion Result ("The Quick Brown Fox", "a.txt", 1).              *)
(***************************************************************************)
\* the call get_best_k_completion("quikc", k >= 1) on that index
QuikcCall ==
  /\ corpus = << << LineQuick, "a.txt" >> >>
  /\ called
  /\ user_input = QueryQuikc
  /\ k >= 1

\* C7 as stated: the resolved token is "quick"
C7_QuikcResolvesToQuick ==
  QuikcCall =>
    /\ correct_sentence = << << "q", "u", "i", "c", "k" >> >>
    /\ result = << << LineQuick, "a.txt", 1 >> >>

\* C7 as amended: the resolved token is "quic" ("quikc" with its "k" deleted,
\* a prefix key of "quick"), and the result is the one line
C7_QuikcResolvesToQuic ==
  QuikcCall =>
    /\ correct_sentence = << << "q", "u", "i", "c" >> >>
    /\ result = << << LineQuick, "a.txt", 1 >> >>

C7_Witness == QuikcCall /\ result # << >>

(***************************************************************************)
(* C8: a call of get_best_k_completion leaves the index as it was: the     *)
(* same keys, and the same record list under every key.                    *)
(***************************************************************************)
C8_QueryLeavesIndexUnchanged ==
  [][ (~called /\ called') => (ht' = ht) ]_vars

\* calls were made that looked up a corrected token, and that gave up on a
\* token with no correction
C8_Witness ==
  /\ called
  /\ \/ /\ ~returned_early
        /\ \E n \in 1..Len(user_words) : user_words[n] # correct_sentence[n]
     \/ /\ returned_early
        /\ correct_sentence # << >>
  /\ DOMAIN ht # {}

(***************************************************************************)
(* C9: the ordered-occurrence filter keeps every line of the running set   *)
(* that has a run of consecutive tokens matching the resolved tokens,      *)
(* wherever the run starts.                                                *)
(***************************************************************************)
C9_FilterAcceptsEveryRun ==
  called /\ ~returned_early /\ Len(user_words) >= 2 =>
    \A line \in lines :
      HasRun(correct_sentence, tokens_of(line[1]))
        => line \in final_lines

(***************************************************************************)
(* C10: for a query token, the substitution generator returns at most 5    *)
(* candidates and the deletion generator returns at most 5 candidates.     *)
(***************************************************************************)
C10_GeneratorsCapAtFive ==
  called =>
    \A n \in 1..Len(user_words) :
      /\ Len(delete_char(ht, user_words[n])) <= 5
      /\ user_words[n] \notin DOMAIN ht => Len(replace_char(ht, user_words[n])) <= 5

(***************************************************************************)
(* C11: cleaning a corpus line and tokenizing a query both yield the       *)
(* maximal runs of letters a-z of the lowercased text, in order, every     *)
(* other character being a separator, so that a letter run next to a digit *)
(* is a word and is indexed.                                               *)
(***************************************************************************)
IsLetter(c) == c \in LowerLetters

\* the maximal runs of characters of class InClass in s, in order
MaximalRuns(s, InClass(_)) ==
  LET starts == { a \in 1..Len(s) : InClass(s[a]) /\ (a = 1 \/ ~InClass(s[a - 1])) }
      EndOf(a) == CHOOSE b \in a..Len(s) :
                    /\ \A i \in a..b : InClass(s[i])
                    /\ b = Len(s) \/ ~InClass(s[b + 1])
      Start(n) == CHOOSE a \in starts : Cardinality({ x \in starts : x < a }) = n - 1
  IN  [ n \in 1..Cardinality(starts) |-> SubSeq(s, Start(n), EndOf(Start(n))) ]

\* C11 as stated: the words are the maximal runs of letters
LetterRuns(text) == MaximalRuns(Lower(text), IsLetter)

\* C11 as amended: the words are the maximal runs of regex word characters
\* (letters, digits, underscore) that are made of letters a-z only
AllLetters(run) == \A i \in 1..Len(run) : IsLetter(run[i])
LetterOnlyWordRuns(text) == SelectSeq(MaximalRuns(Lower(text), IsWordChar), AllLetters)

\* the words process indexes for a raw line
IndexedWords(line) == Split(remove_punctuation(Strip(line)))

\* the query side is stated of a call that has returned, the corpus side of the
\* index between calls (a call changes neither corpus nor index)

C11_TokensAreLetterRuns ==
  /\ called => user_words = LetterRuns(user_input)
  /\ ~called =>
       \A n \in 1..Len(corpus) :
         /\ IndexedWords(corpus[n][1]) = LetterRuns(corpus[n][1])
         /\ \A w \in Range(LetterRuns(corpus[n][1])) : Len(w) >= 2 => w \in DOMAIN ht

C11_TokensAreLetterOnlyWordRuns ==
  /\ called => user_words = LetterOnlyWordRuns(user_input)
  /\ ~called =>
       \A n \in 1..Len(corpus) :
         /\ IndexedWords(corpus[n][1]) = LetterOnlyWordRuns(corpus[n][1])
         /\ \A w \in Range(LetterOnlyWordRuns(corpus[n][1])) : Len(w) >= 2 => w \in DOMAIN ht

\* the line " 2fox, a_b " was processed and left no key, and the query
\* "2fox Brown" was tokenized to the one word "brown"
C11_Witness ==
  /\ corpus # << >>
  /\ \A n \in 1..Len(corpus) : corpus[n][1] = LineDigits
  /\ DOMAIN ht = {}
  /\ called
  /\ user_input = QueryDigitFox
  /\ user_words = << << "b", "r", "o", "w", "n" >> >>

=============================================================================
